---- MODULE Spec2Model ----
(***************************************************************************)
(* A model of the Monte Carlo tree searcher of mcts.py (class MCTS) and of *)
(* a small game that implements the abstract class Node.                   *)
(*                                                                         *)
(* The engine's state is the three maps of MCTS.__init__: Q (total reward  *)
(* of each node), N (visit count of each node) and children.  Q and N are  *)
(* defaultdict(int): reading a missing key stores 0 under it, so a map is  *)
(* modelled as a function whose DOMAIN is its set of keys.                 *)
(*                                                                         *)
(* Rewards are counted in halves, so that the tie 0.5 of Node.reward is    *)
(* the integer 1 and the win 1 is the integer One = 2; `1 - reward` of the *)
(* code is One - reward.                                                   *)
(***************************************************************************)
EXTENDS Integers, Sequences, FiniteSets, TLC

VARIABLES
    N,          \* self.N: node -> visit count (keys = DOMAIN N)
    Q,          \* self.Q: node -> total reward, in halves
    children,   \* self.children: node -> set of nodes
    calls,      \* history: how many times find_children ran on each node
    updates,    \* history: how many times Q[node] was added to
    rollouts,   \* history: number of do_rollout calls that returned normally
    raised,     \* history: some do_rollout call raised
    last        \* the last call made on the engine and how it ended

vars == <<N, Q, children, calls, updates, rollouts, raised, last>>

\* ------------------------------------------------------------------ bounds

\* do_rollout returns normally at most MaxRollouts times (a call that raises
\* is always possible)
MaxRollouts == 4

\* _backpropagate is called MaxBackpropagations times when it is checked by
\* itself
MaxBackpropagations == 2

\* ------------------------------------------------------- the game (class Node)

\* Python's None
None == "None"

\* the reward 1 (a win), in halves
One == 2

\* The board states of the game.  "bad" breaks the contract of Node: it is not
\* terminal and has a successor, yet its find_random_child returns None.
States == {"root", "a", "b", "win", "loss", "draw", "bad"}

\* Node.find_children: all the possible successors of the board state
find_children(node) ==
    CASE node = "root" -> {"a", "b"}
      [] node = "a"    -> {"win", "loss", "draw"}
      [] node = "b"    -> {"draw", "loss"}
      [] node = "bad"  -> {"loss"}
      [] OTHER         -> {}

\* Node.is_terminal: true if the node has no children
is_terminal(node) == node \in {"win", "loss", "draw"}

\* Node.reward of a terminal node: 1 win, 0 loss, 0.5 tie (in halves)
reward(node) ==
    CASE node = "win"  -> One
      [] node = "draw" -> 1
      [] OTHER         -> 0

\* Node.find_random_child: the values one call may return
find_random_child(node) ==
    IF is_terminal(node) \/ node = "bad" THEN {None} ELSE find_children(node)

\* the states reachable from node (node included) by find_children
RECURSIVE Reachable(_)
Reachable(node) ==
    {node} \cup UNION {Reachable(c) : c \in find_children(node)}

\* node, and every state reachable from it, obeys the contract of Node
ObeysContract(node) == "bad" \notin Reachable(node)

\* ------------------------------------------------------------ the engine

\* defaultdict(int).__missing__: the map with 0 stored under the keys it lacks
Missing(map, keys) ==
    [k \in DOMAIN map \cup keys |-> IF k \in DOMAIN map THEN map[k] ELSE 0]

\* the value a map holds for a key, 0 when it has none (reads nothing in)
Get(map, key) == IF key \in DOMAIN map THEN map[key] ELSE 0

\* the engine as one value: the three maps and the history of the calls made
Self == [N |-> N, Q |-> Q, children |-> children,
         calls |-> calls, updates |-> updates]

\* MCTS.__init__
Fresh == [N |-> [k \in {} |-> 0], Q |-> [k \in {} |-> 0],
          children |-> [k \in {} |-> {}],
          calls |-> [s \in States |-> 0], updates |-> [s \in States |-> 0]]

\* A faulty variant of score_ge: min where max was meant (the comparison is
\* turned round), so the worst child wins.
score_ge_reversed(self, a, b) ==
    IF Get(self.N, a) = 0 THEN TRUE
    ELSE IF Get(self.N, b) = 0 THEN FALSE
    ELSE self.Q[a] * self.N[b] =< self.Q[b] * self.N[a]

\* score(a) >= score(b) for choose's key: -inf when N is 0, else Q / N
score_ge(self, a, b) ==
    IF Get(self.N, b) = 0 THEN TRUE
    ELSE IF Get(self.N, a) = 0 THEN FALSE
    ELSE self.Q[a] * self.N[b] >= self.Q[b] * self.N[a]

\* the maps after score(n) ran for every n of nodes: self.N[n] is read for
\* each, self.Q[n] only when self.N[n] is not 0
score_reads(self, nodes) ==
    LET N1 == Missing(self.N, nodes)
    IN  [self EXCEPT !.N = N1,
                     !.Q = Missing(self.Q, {n \in nodes : N1[n] # 0})]

\* A faulty variant of choose: the test of lines 28 and 29 is missing.
choose_unchecked(self, node) ==
    IF node \notin DOMAIN self.children
    THEN {[outcome |-> "ok", result |-> c, self |-> self] :
             c \in find_random_child(node)}
    ELSE IF self.children[node] = {}
    THEN {[outcome |-> "ValueError", result |-> None, self |-> self]}
    ELSE LET kids == self.children[node]
             best == {c \in kids : \A d \in kids : score_ge(self, c, d)}
         IN  {[outcome |-> "ok", result |-> c,
               self |-> score_reads(self, kids)] : c \in best}

\* A faulty variant of choose: a node that was never expanded is expanded on
\* the spot (find_children is stored) before a random child is returned.
choose_expanding(self, node) ==
    IF is_terminal(node)
    THEN {[outcome |-> "RuntimeError", result |-> None, self |-> self]}
    ELSE IF node \notin DOMAIN self.children
    THEN {[outcome |-> "ok", result |-> c,
           self |-> [self EXCEPT !.children =
                        [k \in DOMAIN self.children \cup {node} |->
                            IF k = node THEN find_children(node)
                            ELSE self.children[k]]]] :
             c \in find_random_child(node)}
    ELSE IF self.children[node] = {}
    THEN {[outcome |-> "ValueError", result |-> None, self |-> self]}
    ELSE LET kids == self.children[node]
             best == {c \in kids : \A d \in kids : score_ge(self, c, d)}
         IN  {[outcome |-> "ok", result |-> c,
               self |-> score_reads(self, kids)] : c \in best}

\* MCTS.choose: the ways one call may end
choose(self, node) ==
    IF is_terminal(node)
    THEN {[outcome |-> "RuntimeError", result |-> None, self |-> self]}
    ELSE IF node \notin DOMAIN self.children
    THEN {[outcome |-> "ok", result |-> c, self |-> self] :
             c \in find_random_child(node)}
    ELSE IF self.children[node] = {}
    THEN {[outcome |-> "ValueError", result |-> None, self |-> self]}
    ELSE LET kids == self.children[node]
             best == {c \in kids : \A d \in kids : score_ge(self, c, d)}
         IN  {[outcome |-> "ok", result |-> c,
               self |-> score_reads(self, kids)] : c \in best}

\* A faulty variant of _select: the test of line 60 is missing, the select
\* phase goes on to the descent step with children still unexplored.
_select_no_unexplored(self, node) ==
    LET path == <<node>>
    IN  IF node \notin DOMAIN self.children \/ self.children[node] = {}
        THEN {[outcome |-> "ok", path |-> path, self |-> self]}
        ELSE {[outcome |-> "AttributeError", path |-> path, self |-> self]}

\* A faulty variant of _select: the child appended is any child of the node
\* (children[node].pop()), not one of the unexplored ones.
_select_any_child(self, node) ==
    LET path == <<node>>
    IN  IF node \notin DOMAIN self.children \/ self.children[node] = {}
        THEN {[outcome |-> "ok", path |-> path, self |-> self]}
        ELSE LET unexplored == self.children[node] \ DOMAIN self.children
             IN  IF unexplored # {}
                 THEN {[outcome |-> "ok", path |-> Append(path, n),
                        self |-> self] : n \in self.children[node]}
                 ELSE {[outcome |-> "AttributeError", path |-> path,
                        self |-> self]}

\* MCTS._select: the ways the select phase may end, each with the engine it
\* leaves (the difference of line 59 is a new set, so pop takes nothing out
\* of children).  Line 64 looks up self._uct_select, which class MCTS does
\* not define (it defines uct_select): the descent step raises AttributeError
\* before any method is called.
_select(self, node) ==
    LET path == <<node>>
    IN  IF node \notin DOMAIN self.children \/ self.children[node] = {}
        THEN {[outcome |-> "ok", path |-> path, self |-> self]}
        ELSE LET unexplored == self.children[node] \ DOMAIN self.children
             IN  IF unexplored # {}
                 THEN {[outcome |-> "ok", path |-> Append(path, n),
                        self |-> self] : n \in unexplored}
                 ELSE {[outcome |-> "AttributeError", path |-> path,
                        self |-> self]}

\* A faulty variant of _expand: the test of lines 69 and 70 is missing, so
\* find_children runs again on a node that was expanded before.
_expand_again(self, node) ==
    [self EXCEPT
        !.children = [k \in DOMAIN self.children \cup {node} |->
                        IF k = node THEN find_children(node)
                        ELSE self.children[k]],
        !.calls[node] = @ + 1]

\* MCTS._expand
_expand(self, node) ==
    IF node \in DOMAIN self.children
    THEN self
    ELSE [self EXCEPT
            !.children = [k \in DOMAIN self.children \cup {node} |->
                            IF k = node THEN find_children(node)
                            ELSE self.children[k]],
            !.calls[node] = @ + 1]

\* the loop of MCTS._simulate, from node with the flag invert_reward, after
\* steps random moves; None.is_terminal() raises AttributeError
RECURSIVE simulate_loop(_, _, _)
simulate_loop(node, invert_reward, steps) ==
    IF node = None
    THEN {[outcome |-> "AttributeError", reward |-> -1, end |-> None,
           steps |-> steps]}
    ELSE IF is_terminal(node)
    THEN {[outcome |-> "ok",
           reward |-> IF invert_reward THEN One - reward(node)
                      ELSE reward(node),
           end |-> node, steps |-> steps]}
    ELSE UNION {simulate_loop(c, ~invert_reward, steps + 1) :
                   c \in find_random_child(node)}

\* A faulty variant of _simulate: invert_reward starts False.
_simulate_uninverted(node) == simulate_loop(node, FALSE, 0)

\* MCTS._simulate: the ways a random simulation from node may end
_simulate(node) == simulate_loop(node, TRUE, 0)

\* A faulty variant of visit: the visit count is set (= 1) where it should
\* be incremented (+= 1).
visit_set(self, node, r) ==
    LET N1 == Missing(self.N, {node})
        Q1 == Missing(self.Q, {node})
    IN  [self EXCEPT !.N = [N1 EXCEPT ![node] = 1],
                     !.Q = [Q1 EXCEPT ![node] = @ + r],
                     !.updates[node] = @ + 1]

\* one pass of the loop of MCTS._backpropagate for node (lines 88 and 89)
visit(self, node, r) ==
    LET N1 == Missing(self.N, {node})
        Q1 == Missing(self.Q, {node})
    IN  [self EXCEPT !.N = [N1 EXCEPT ![node] = @ + 1],
                     !.Q = [Q1 EXCEPT ![node] = @ + r],
                     !.updates[node] = @ + 1]

\* A faulty variant of flip: line 90 is missing, every node of the path
\* gets the leaf's reward.
flip_missing(r) == r

\* A faulty variant of flip: the reward is negated (reward = -reward), as it
\* would be for rewards in [-1, 1].
flip_negated(r) == 0 - r

\* reward = 1 - reward: 1 for me is 0 for my enemy
flip(r) == One - r

\* the loop of MCTS._backpropagate over reversed(path): path[i], then the
\* nodes before it
RECURSIVE backpropagate_loop(_, _, _, _)
backpropagate_loop(self, path, i, r) ==
    IF i = 0 THEN self
    ELSE backpropagate_loop(visit(self, path[i], r), path, i - 1, flip(r))

\* A faulty variant of _backpropagate: the loop starts one node too early,
\* the leaf is not visited.
_backpropagate_skip_leaf(self, path, r) ==
    backpropagate_loop(self, path, Len(path) - 1, flip(r))

\* MCTS._backpropagate
_backpropagate(self, path, r) == backpropagate_loop(self, path, Len(path), r)

\* MCTS.uct_select, up to the comparison of the children: the exception a
\* call raises before it returns a child, "ok" when it raises none.  (Which
\* child has the greatest upper confidence bound is not modelled: no method
\* of the class calls uct_select.)
uct_select_raises(self, node) ==
    IF node \notin DOMAIN self.children
    THEN "KeyError"                 \* self.children[node], line 97
    ELSE IF \E n \in self.children[node] : n \notin DOMAIN self.children
    THEN "AssertionError"           \* line 97
    ELSE IF Get(self.N, node) = 0
    THEN "ValueError"               \* math.log(0), line 99
    ELSE IF self.children[node] = {}
    THEN "ValueError"               \* max of an empty set, line 107
    ELSE IF \E n \in self.children[node] : Get(self.N, n) = 0
    THEN "ZeroDivisionError"        \* self.Q[n] / self.N[n], line 103
    ELSE "ok"

\* MCTS.do_rollout: the ways one call may end, each with the engine it
\* leaves; phase is the phase that raised, "done" when none did
do_rollout(self, node) ==
    UNION {
        IF sel.outcome # "ok"
        THEN {[outcome |-> sel.outcome, phase |-> "select", self |-> sel.self,
               path |-> sel.path, reward |-> -1, end |-> None, steps |-> -1]}
        ELSE LET leaf == sel.path[Len(sel.path)]
                 expanded == _expand(sel.self, leaf)
             IN  {IF sim.outcome # "ok"
                  THEN [outcome |-> sim.outcome, phase |-> "simulate",
                        self |-> expanded, path |-> sel.path, reward |-> -1,
                        end |-> None, steps |-> sim.steps]
                  ELSE [outcome |-> "ok", phase |-> "done",
                        self |-> _backpropagate(expanded, sel.path, sim.reward),
                        path |-> sel.path, reward |-> sim.reward,
                        end |-> sim.end, steps |-> sim.steps] :
                     sim \in _simulate(leaf)} :
        sel \in _select(self, node)}

\* ------------------------------------------------------------- the calls

Init ==
    /\ N = Fresh.N
    /\ Q = Fresh.Q
    /\ children = Fresh.children
    /\ calls = Fresh.calls
    /\ updates = Fresh.updates
    /\ rollouts = 0
    /\ raised = FALSE
    /\ last = [op |-> "new", arg |-> None, outcome |-> "ok", phase |-> "none",
               result |-> None, path |-> <<>>, reward |-> -1, end |-> None,
               steps |-> -1]

\* the engine becomes self
Becomes(self) ==
    /\ N' = self.N
    /\ Q' = self.Q
    /\ children' = self.children
    /\ calls' = self.calls
    /\ updates' = self.updates

\* the caller calls do_rollout(node)
DoRollout(node) ==
    \E r \in do_rollout(Self, node) :
        /\ r.outcome = "ok" => rollouts < MaxRollouts
        /\ Becomes(r.self)
        /\ rollouts' = IF r.outcome = "ok" THEN rollouts + 1 ELSE rollouts
        /\ raised' = (raised \/ r.outcome # "ok")
        /\ last' = [op |-> "do_rollout", arg |-> node, outcome |-> r.outcome,
                    phase |-> r.phase, result |-> None, path |-> r.path,
                    reward |-> r.reward, end |-> r.end, steps |-> r.steps]

\* the caller calls choose(node)
Choose(node) ==
    \E r \in choose(Self, node) :
        /\ Becomes(r.self)
        /\ UNCHANGED <<rollouts, raised>>
        /\ last' = [op |-> "choose", arg |-> node, outcome |-> r.outcome,
                    phase |-> "none", result |-> r.result, path |-> <<>>,
                    reward |-> -1, end |-> None, steps |-> -1]

Next == (\E node \in States : DoRollout(node)) \/ (\E node \in States : Choose(node))

Spec == Init /\ [][Next]_vars

\* --------------------------------------- do_rollout from one root, for ever

\* The caller searches from one root that obeys the contract of Node: the
\* first call picks it, every later call is do_rollout on the same node.
RootRollout ==
    \E node \in States :
        /\ ObeysContract(node)
        /\ last.op = "new" \/ last.arg = node
        /\ DoRollout(node)

\* the caller goes on calling do_rollout for as long as it may
RootSpec == Init /\ [][RootRollout]_vars /\ WF_vars(RootRollout)

\* ------------------------------------------------ _backpropagate by itself

\* the paths of the game that start at node, root first
RECURSIVE PathsFrom(_)
PathsFrom(node) ==
    {<<node>>} \cup
    UNION {{<<node>> \o p : p \in PathsFrom(c)} : c \in find_children(node)}

\* the paths _select may hand to _backpropagate when it descends as designed:
\* each node after the first is a child of the one before it
Paths == UNION {PathsFrom(node) : node \in States}

\* the rewards _simulate may return
Rewards == {0, 1, One}

\* _backpropagate(path, r) is called on the engine
Backpropagate(path, r) ==
    /\ rollouts < MaxBackpropagations
    /\ Becomes(_backpropagate(Self, path, r))
    /\ rollouts' = rollouts + 1
    /\ UNCHANGED raised
    /\ last' = [op |-> "_backpropagate", arg |-> path[1], outcome |-> "ok",
                phase |-> "none", result |-> None, path |-> path,
                reward |-> r, end |-> None, steps |-> -1]

BackpropagateNext == \E path \in Paths, r \in Rewards : Backpropagate(path, r)

BackpropagateSpec == Init /\ [][BackpropagateNext]_vars

\* ------------------------------------------------------------ properties

\* the step is a call of choose(node) / of do_rollout(node): every call
\* records itself in last
ChooseCalled == last'.op = "choose"

RolloutCalled == last'.op = "do_rollout"

\* the step leaves the three maps as they are, their sets of keys included
MapsUnchanged == N' = N /\ Q' = Q /\ children' = children

\* C1: choose on a terminal node always ends in the RuntimeError of line 29,
\* whatever the engine holds, and leaves N, Q and children as they were.
C1_TerminalChooseRaises ==
    [][(ChooseCalled /\ is_terminal(last'.arg))
        => (last'.outcome = "RuntimeError" /\ last'.result = None
            /\ MapsUnchanged)]_vars

\* C1 happens: choose raised on a terminal node that rollouts had reached
C1_Witness ==
    /\ last.op = "choose" /\ is_terminal(last.arg)
    /\ last.outcome = "RuntimeError"
    /\ last.arg \in DOMAIN children /\ Get(N, last.arg) > 0

\* C2: every do_rollout on a node whose reachable states obey the contract
\* of Node returns normally.
C2_RolloutReturns ==
    (last.op = "do_rollout" /\ ObeysContract(last.arg)) => last.outcome = "ok"

\* the children of node that were visited
Visited(node) == {c \in children[node] : Get(N, c) > 0}

\* C3: choose on a non-terminal node that is a key of children returns one
\* of children[node]; when some child was visited, the one returned was
\* visited and no visited child has a greater mean Q / N.
C3_ChooseBest ==
    (/\ last.op = "choose" /\ ~is_terminal(last.arg)
     /\ last.arg \in DOMAIN children /\ children[last.arg] # {})
    => /\ last.outcome = "ok"
       /\ last.result \in children[last.arg]
       /\ Visited(last.arg) # {} =>
            /\ last.result \in Visited(last.arg)
            /\ \A c \in Visited(last.arg) :
                  Q[last.result] * N[c] >= Q[c] * N[last.result]

\* C3 happens: choose passed over a visited child with a smaller mean and
\* over a child never visited
C3_Witness ==
    /\ last.op = "choose" /\ last.outcome = "ok"
    /\ last.arg \in DOMAIN children
    /\ \E c \in Visited(last.arg) :
          Q[last.result] * N[c] > Q[c] * N[last.result]
    /\ children[last.arg] \ Visited(last.arg) # {}

\* C4: choose on a non-terminal node leaves N, Q and children as they were,
\* their sets of keys included.
C4_ChoosePure ==
    [][(ChooseCalled /\ ~is_terminal(last'.arg)) => MapsUnchanged]_vars

\* C5: on an engine on which nothing was done yet, choose on a non-terminal
\* node returns what find_random_child returned, which is one of
\* find_children when the node obeys the contract of Node; it does not raise
\* and leaves the three maps empty.
C5_FreshChoose ==
    [][(Self = Fresh /\ ChooseCalled /\ ~is_terminal(last'.arg))
        => /\ last'.outcome = "ok"
           /\ last'.result \in find_random_child(last'.arg)
           /\ ObeysContract(last'.arg)
                => last'.result \in find_children(last'.arg)
           /\ N' = Fresh.N /\ Q' = Fresh.Q /\ children' = Fresh.children]_vars

\* C5 happens: choose returned a child on an engine nothing was done on
C5_Witness ==
    /\ Self = Fresh
    /\ last.op = "choose" /\ ~is_terminal(last.arg)
    /\ last.outcome = "ok" /\ last.result \in find_children(last.arg)

\* the node the last do_rollout ended its path with
Leaf == last.path[Len(last.path)]

\* C6, in every state: find_children ran at most once on each node, once on
\* each key of children and never on another node, and _expand of a key of
\* children leaves the engine as it is.
ExpandedOnce ==
    \A s \in States :
        /\ calls[s] =< 1
        /\ s \in DOMAIN children <=> calls[s] = 1
        /\ s \in DOMAIN children => _expand(Self, s) = Self

\* C6, in every step: an entry of children stays as it was stored
ChildrenKept ==
    \A s \in DOMAIN children :
        s \in DOMAIN children' /\ children'[s] = children[s]

\* C6: expansion is memoized: find_children is called at most once per node,
\* exactly once for each key of children; expanding a key of children again
\* changes nothing, and children[node] never changes once it is stored.
C6_Memoized == []ExpandedOnce /\ [][ChildrenKept]_vars

\* C6 happens: a rollout ended at a leaf that an earlier rollout had expanded
C6_Witness ==
    /\ last.op = "do_rollout" /\ last.outcome = "ok"
    /\ Get(N, Leaf) >= 2 /\ calls[Leaf] = 1

\* C7: for every node, the number of times its total reward was added to
\* equals its visit count: Q[node] and N[node] are only updated together.
C7_Paired == \A s \in States : updates[s] = Get(N, s)

\* C7 happens: a rollout updated a path of two nodes, one of them for at
\* least the second time, while choose had read a child never visited
C7_Witness ==
    /\ last.op = "do_rollout" /\ last.outcome = "ok" /\ Len(last.path) = 2
    /\ Get(N, last.path[1]) >= 2
    /\ \E s \in DOMAIN N : N[s] = 0

\* the step is a call of _backpropagate(last'.path, last'.reward)
BackpropagateCalled == last'.op = "_backpropagate"

\* the reward the i-th node of a path p gets when its leaf gets r
Applied(p, r, i) == IF (Len(p) - i) % 2 = 0 THEN r ELSE One - r

\* what the step added to the total reward of node
Received(node) == Get(Q', node) - Get(Q, node)

\* the step visits every node of the path once, adds r to the leaf's total
\* reward, r or 1 - r to the others by the parity of their distance to the
\* leaf, and leaves the nodes off the path alone
PathUpdated ==
    LET p == last'.path
        r == last'.reward
    IN  /\ \A i \in 1..Len(p) :
              /\ Get(N', p[i]) = Get(N, p[i]) + 1
              /\ Received(p[i]) = Applied(p, r, i)
        /\ \A s \in States \ {p[i] : i \in 1..Len(p)} :
              /\ Get(N', s) = Get(N, s) /\ Get(Q', s) = Get(Q, s)
              /\ s \in DOMAIN N' <=> s \in DOMAIN N
              /\ s \in DOMAIN Q' <=> s \in DOMAIN Q

\* C8 as stated: PathUpdated, and the root and the leaf receive the same
\* reward iff the path has an odd number of nodes.
C8_AsStated ==
    [][BackpropagateCalled
        => /\ PathUpdated
           /\ Received(last'.path[1]) = Received(Leaf')
                <=> Len(last'.path) % 2 = 1]_vars

\* C8, amended: PathUpdated; the root and the leaf receive the same reward
\* when the path has an odd number of nodes, and when it has an even number
\* the root receives 1 - r, which is the leaf's r exactly when r = 1/2.
C8_Parity ==
    [][BackpropagateCalled
        => /\ PathUpdated
           /\ Len(last'.path) % 2 = 1
                => Received(last'.path[1]) = Received(Leaf')
           /\ Len(last'.path) % 2 = 0
                => /\ Received(last'.path[1]) = One - Received(Leaf')
                   /\ Received(last'.path[1]) = Received(Leaf')
                        <=> 2 * last'.reward = One]_vars

\* C8 happens: the first backpropagation, of a win over a path root, mid,
\* leaf, gave the win to the leaf and to the root and the loss to mid
C8_Witness ==
    /\ last.op = "_backpropagate" /\ rollouts = 1
    /\ Len(last.path) = 3 /\ last.reward = One
    /\ Get(Q, last.path[1]) = One /\ Get(Q, last.path[2]) = 0
    /\ Get(Q, last.path[3]) = One
    /\ \A i \in 1..3 : Get(N, last.path[i]) = 1

\* C9: a do_rollout that raises leaves N, Q and children as they were before
\* the call.
C9_FailedRolloutKeepsMaps ==
    [][(RolloutCalled /\ last'.outcome # "ok") => MapsUnchanged]_vars

\* C10: with do_rollout called on one root again and again, the keys of
\* children are always states reachable from the root, never more of them
\* than there are, and in the end they are all the states reachable from it.
C10_AllExpanded ==
    /\ [](last.op = "do_rollout"
            => /\ DOMAIN children \subseteq Reachable(last.arg)
               /\ Cardinality(DOMAIN children)
                    =< Cardinality(Reachable(last.arg)))
    /\ <>(last.op = "do_rollout" /\ DOMAIN children = Reachable(last.arg))

\* the nodes of a path
Nodes(path) == {path[i] : i \in 1..Len(path)}

\* the keys the step adds to one of the three maps
NewKeys ==
    (DOMAIN children' \ DOMAIN children) \cup (DOMAIN N' \ DOMAIN N)
        \cup (DOMAIN Q' \ DOMAIN Q)

\* C11: no step takes a key out of children, N or Q or lowers a visit count,
\* and a key appears only in a do_rollout step, for a node of its path.
C11_OnlyGrows ==
    [][/\ DOMAIN children \subseteq DOMAIN children'
       /\ DOMAIN N \subseteq DOMAIN N'
       /\ DOMAIN Q \subseteq DOMAIN Q'
       /\ \A s \in States : Get(N', s) >= Get(N, s)
       /\ NewKeys # {} => (RolloutCalled /\ NewKeys \subseteq Nodes(last'.path))
      ]_vars

\* case (a) of the select phase: node is a leaf of the known tree
EndsKnownTree(node) == node \notin DOMAIN children \/ children[node] = {}

\* the children of an expanded node that are no keys of children
Unexplored(node) == children[node] \ DOMAIN children

\* p is a path the select phase may return for node: it starts with node,
\* every node but the last is expanded with children and is followed by one
\* of them, every node before the last two has no unexplored child, and the
\* path stops at the first node that is a leaf of the known tree (a) or, when
\* the node before has an unexplored child, with one such child (b)
SelectedPath(node, p) ==
    LET k == Len(p)
    IN  /\ k >= 1 /\ p[1] = node
        /\ \A i \in 1..(k - 1) :
              /\ p[i] \in DOMAIN children /\ children[p[i]] # {}
              /\ p[i + 1] \in children[p[i]]
        /\ \A i \in 1..(k - 2) : Unexplored(p[i]) = {}
        /\ k = 1 => EndsKnownTree(p[1])
        /\ k >= 2 => IF Unexplored(p[k - 1]) # {}
                     THEN p[k] \in Unexplored(p[k - 1])
                     ELSE EndsKnownTree(p[k])

\* C12: in every state and for every node, the select phase changes nothing
\* in the engine, returns a path when the node is a leaf of the known tree or
\* has an unexplored child, and every path it returns is a SelectedPath.
C12_SelectPath ==
    \A node \in States : \A sel \in _select(Self, node) :
        /\ sel.self = Self
        /\ (EndsKnownTree(node) \/ Unexplored(node) # {}) => sel.outcome = "ok"
        /\ sel.outcome = "ok" => SelectedPath(node, sel.path)

\* C12 happens: a rollout's select phase appended an unexplored child to a
\* root that had an explored child too and still has an unexplored one
C12_Witness ==
    /\ last.op = "do_rollout" /\ last.outcome = "ok" /\ Len(last.path) = 2
    /\ Unexplored(last.arg) # {}
    /\ \E c \in children[last.arg] \ {Leaf} : c \in DOMAIN children

\* the nodes a simulation may be at after n random moves from node
RECURSIVE MovesFrom(_, _)
MovesFrom(node, n) ==
    IF n = 0 THEN {node}
    ELSE UNION {MovesFrom(c, n - 1) : c \in find_random_child(node) \ {None}}

\* C13, in every state: a simulation from a leaf that obeys the contract of
\* Node ends at a terminal node, reached from the leaf by the random moves it
\* counted, and returns 1 - reward() of that node after an even number of
\* moves (none included) and reward() itself after an odd number.
SimulationEnded ==
    (last.op = "do_rollout" /\ last.phase # "select" /\ ObeysContract(Leaf))
    => /\ last.outcome = "ok"
       /\ last.steps >= 0 /\ last.end \in MovesFrom(Leaf, last.steps)
       /\ is_terminal(last.end)
       /\ last.reward = IF last.steps % 2 = 0 THEN One - reward(last.end)
                        ELSE reward(last.end)

\* C13, in every step: a rollout that raises in its simulate phase leaves N
\* and Q as they were and children as the expand phase left it
SimulationKeepsMaps ==
    (RolloutCalled /\ last'.phase = "simulate")
    => /\ N' = N /\ Q' = Q
       /\ children' = _expand(Self, Leaf').children

\* C13: the simulate phase follows find_random_child to the first terminal
\* node and returns its reward, inverted after an even number of moves; it
\* always ends when the nodes obey the contract, and changes no map.
C13_Simulate == []SimulationEnded /\ [][SimulationKeepsMaps]_vars

\* C13 happens: a simulation made two random moves to a win and returned 0
C13_Witness ==
    /\ last.op = "do_rollout" /\ last.outcome = "ok"
    /\ last.steps = 2 /\ last.end = "win" /\ last.reward = 0

\* the last call was a do_rollout that reached the descent step of line 64
\* for the node Leaf; the call raised there and left the engine as it was
\* when the step was reached
DescentReached == last.op = "do_rollout" /\ last.phase = "select"

\* C14: whenever the select phase reaches the descent step for a node, every
\* child recorded for the node is a key of children: the assertion of
\* uct_select would not fail.
C14_DescentPrecondition ==
    DescentReached
    => /\ \A n \in children[Leaf] : n \in DOMAIN children
       /\ uct_select_raises(Self, Leaf) \notin {"KeyError", "AssertionError"}

\* C14 happens: the descent step was reached for a node with two children
C14_Witness == DescentReached /\ Cardinality(children[Leaf]) >= 2

\* C15: whenever the select phase reaches the descent step for a node, the
\* node's visit count is greater than 0.
C15_DescentVisited == DescentReached => Get(N, Leaf) > 0

\* C16: as long as no do_rollout raised, every key of children was visited,
\* so that for a node whose children are all expanded the division by
\* N[child] in uct_select does not raise.
C16_ExpandedVisited ==
    ~raised
    => /\ \A s \in DOMAIN children : Get(N, s) >= 1
       /\ \A node \in DOMAIN children :
             Unexplored(node) = {}
             => uct_select_raises(Self, node) # "ZeroDivisionError"

\* C16 happens: no do_rollout raised, every child of a node was expanded,
\* and choose then read the visit count of a child never visited
C16_Witness ==
    /\ ~raised /\ last.op = "choose"
    /\ \E node \in DOMAIN children :
          children[node] # {} /\ Unexplored(node) = {}
    /\ \E s \in DOMAIN N : N[s] = 0

\* C17, in every state of a search from one root: after k rollouts returned
\* normally the root was visited k times, children has at most k keys and no
\* node was visited more than k times.
RootCounts ==
    last.op = "do_rollout"
    => /\ Get(N, last.arg) = rollouts
       /\ Cardinality(DOMAIN children) =< rollouts
       /\ \A s \in States : Get(N, s) =< rollouts

\* C17, in every step: a do_rollout that returns normally adds no key to
\* children but its leaf (none when the leaf was a key) and visits the node
\* it was called with exactly once
RolloutAddsLeaf ==
    (RolloutCalled /\ last'.outcome = "ok")
    => /\ DOMAIN children' = DOMAIN children \cup {Leaf'}
       /\ Get(N', last'.arg) = Get(N, last'.arg) + 1
       /\ rollouts' = rollouts + 1

\* C17: each do_rollout that returns normally adds at most one key to
\* children, its leaf, and visits its root once; so after k such calls from
\* one root on a new engine N[root] = k, children has at most k keys and
\* N[s] <= k for every node s.
C17_OneLeafPerRollout == []RootCounts /\ [][RolloutAddsLeaf]_vars

\* C17 happens: the third rollout from a root expanded a second child of it
C17_Witness ==
    /\ last.op = "do_rollout" /\ last.outcome = "ok" /\ rollouts = 3
    /\ Get(N, last.arg) = 3 /\ Cardinality(DOMAIN children) = 3
    /\ Len(last.path) = 2

\* the rewards of the game's terminal nodes are in [0, 1]
RewardsInRange ==
    \A t \in States : is_terminal(t) => (0 =< reward(t) /\ reward(t) =< One)

\* C18: with terminal rewards in [0, 1], the total reward of every node is
\* at least 0 and at most its visit count.
C18_RewardBounds ==
    RewardsInRange
    => \A s \in States : 0 =< Get(Q, s) /\ Get(Q, s) =< One * Get(N, s)

\* C18 happens: a node visited twice got the reward 1 both times, another
\* visited node got 0, and a third a tie
C18_Witness ==
    /\ \E s \in DOMAIN N : N[s] >= 2 /\ Get(Q, s) = One * N[s]
    /\ \E s \in DOMAIN N : N[s] >= 1 /\ Get(Q, s) = 0
    /\ \E s \in DOMAIN N : N[s] = 1 /\ Get(Q, s) = 1

====
